---- MODULE Spec2Model ----
(***************************************************************************)
(* ChartGenie conversational diagram server.                               *)
(*                                                                         *)
(* Texts (user messages, LLM responses, diagrams) are TLA+ strings and are *)
(* processed character by character, the way the JavaScript source does:   *)
(* Len, SubSeq and \o on strings stand for length, slice and +.            *)
(***************************************************************************)
EXTENDS Integers, Sequences, FiniteSets, TLC

(***************************************************************************)
(* JavaScript string primitives                                            *)
(***************************************************************************)

Chr(s, i) == SubSeq(s, i, i)

UpperLetters == "ABCDEFGHIJKLMNOPQRSTUVWXYZ"

LowerLetters == "abcdefghijklmnopqrstuvwxyz"

DigitChars == "0123456789"

CharsOf(s) == {Chr(s, i) : i \in 1..Len(s)}

UpperSet == CharsOf(UpperLetters)

LowerSet == CharsOf(LowerLetters)

DigitSet == CharsOf(DigitChars)

\* \w of a JavaScript regular expression
WordSet == UpperSet \cup LowerSet \cup DigitSet \cup {"_"}

\* \s of a regular expression and the characters String.prototype.trim removes
WhiteSet == {" ", "\t", "\n", "\r", "\f"}

LowerOf == [c \in UpperSet |->
              LET i == CHOOSE k \in 1..26 : Chr(UpperLetters, k) = c
              IN  Chr(LowerLetters, i)]

UpperOf == [c \in LowerSet |->
              LET i == CHOOSE k \in 1..26 : Chr(LowerLetters, k) = c
              IN  Chr(UpperLetters, i)]

LowerChar(c) == IF c \in UpperSet THEN LowerOf[c] ELSE c

UpperChar(c) == IF c \in LowerSet THEN UpperOf[c] ELSE c

RECURSIVE ToLowerCase(_)
ToLowerCase(s) ==
  IF Len(s) = 0 THEN ""
  ELSE IF Len(s) = 1 THEN LowerChar(s)
  ELSE LET h == Len(s) \div 2
       IN  ToLowerCase(SubSeq(s, 1, h)) \o ToLowerCase(SubSeq(s, h + 1, Len(s)))

RECURSIVE ToUpperCase(_)
ToUpperCase(s) ==
  IF Len(s) = 0 THEN ""
  ELSE IF Len(s) = 1 THEN UpperChar(s)
  ELSE LET h == Len(s) \div 2
       IN  ToUpperCase(SubSeq(s, 1, h)) \o ToUpperCase(SubSeq(s, h + 1, Len(s)))

Min(S) == CHOOSE x \in S : \A y \in S : x <= y

Max(S) == CHOOSE x \in S : \A y \in S : x >= y

\* s.startsWith(p) at position i (1-based)
MatchAt(s, p, i) == i >= 1 /\ i + Len(p) - 1 <= Len(s) /\ SubSeq(s, i, i + Len(p) - 1) = p

StartsWith(s, p) == MatchAt(s, p, 1)

Occurrences(s, p) == {i \in 1..(Len(s) - Len(p) + 1) : SubSeq(s, i, i + Len(p) - 1) = p}

\* s.includes(p)
Includes(s, p) == \E i \in 1..(Len(s) - Len(p) + 1) : SubSeq(s, i, i + Len(p) - 1) = p

\* the first position from i on that holds no character of cs (Len(s) + 1 when
\* there is none): the end (exclusive) of the run of characters of cs that starts at i
RunEnd(s, cs, i) == Min({j \in i..(Len(s) + 1) : j > Len(s) \/ Chr(s, j) \notin cs})

\* the same for the run of characters outside cs
RunEndNot(s, cs, i) == Min({j \in i..(Len(s) + 1) : j > Len(s) \/ Chr(s, j) \in cs})

SkipWhite(s, i) == RunEnd(s, WhiteSet, i)

\* the last position up to i that holds no white space, 0 when there is none
SkipWhiteBack(s, i) == i - Min({d \in 0..i : d = i \/ Chr(s, i - d) \notin WhiteSet})

\* s.trim()
Trim(s) ==
  LET a == SkipWhite(s, 1)
      b == SkipWhiteBack(s, Len(s))
  IN  IF a > b THEN "" ELSE SubSeq(s, a, b)

RECURSIVE CutAt(_, _, _)
CutAt(s, P, from) ==
  LET rest == {j \in P : j >= from}
  IN  IF rest = {} THEN <<SubSeq(s, from, Len(s))>>
      ELSE LET j == Min(rest)
           IN  <<SubSeq(s, from, j - 1)>> \o CutAt(s, P, j + 1)

\* s.split('\n')
SplitLines(s) == CutAt(s, Occurrences(s, "\n"), 1)

RECURSIVE JoinLines(_)
JoinLines(ls) ==
  IF Len(ls) = 0 THEN ""
  ELSE IF Len(ls) = 1 THEN ls[1]
  ELSE ls[1] \o "\n" \o JoinLines(Tail(ls))

\* s.split(/\s+/): the maximal runs of non-white characters (the empty first or
\* last piece JavaScript adds for leading or trailing white space matches no word
\* the source compares it with, and is left out)
RECURSIVE WordsFrom(_, _)
WordsFrom(s, i) ==
  LET a == SkipWhite(s, i)
  IN  IF a > Len(s) THEN <<>>
      ELSE LET b == RunEndNot(s, WhiteSet, a)
           IN  <<SubSeq(s, a, b - 1)>> \o WordsFrom(s, b)

SplitWhite(s) == WordsFrom(s, 1)

\* s.replace(/p/g, '') for a literal p; ci = the i flag. occ holds where p occurs
RECURSIVE RemoveAll(_, _, _)
RemoveOccurrences(s, p, ci, occ) ==
  IF occ = {} THEN s
  ELSE SubSeq(s, 1, Min(occ) - 1) \o RemoveAll(SubSeq(s, Min(occ) + Len(p), Len(s)), p, ci)

RemoveAll(s, p, ci) == RemoveOccurrences(s, p, ci, Occurrences(IF ci THEN ToLowerCase(s) ELSE s, p))

SeqToSet(q) == {q[i] : i \in 1..Len(q)}

\* [...new Set(q)]: first occurrences, in order
RECURSIVE AddDistinct(_, _, _)
AddDistinct(q, i, seen) ==
  IF i > Len(q) THEN seen
  ELSE AddDistinct(q, i + 1, IF q[i] \in SeqToSet(seen) THEN seen ELSE Append(seen, q[i]))

Dedup(q) == AddDistinct(q, 1, <<>>)

(***************************************************************************)
(* config.js                                                               *)
(***************************************************************************)

MAX_INPUT_LENGTH == 1000

MAX_CONVERSATION_HISTORY == 10

OUTPUT_FORMATS == {"mermaid", "tikz", "pgf", "plantuml"}

(***************************************************************************)
(* JavaScript values: a request's message is a string or some other value  *)
(* (undefined, a number, ...); an absent diagram (null) is the empty       *)
(* string, which the source tests the same way (!currentDiagram).          *)
(***************************************************************************)

Str(s) == [isString |-> TRUE, text |-> s]

NotAString == [isString |-> FALSE, text |-> ""]

Null == ""

\* a call's outcome: a value, or a thrown error
Returned(v) == [ok |-> TRUE, val |-> v]

Thrown(e) == [ok |-> FALSE, val |-> e]

(***************************************************************************)
(* utils.js                                                                *)
(***************************************************************************)

\* validateInput with the length limit one character lower
ValidateInputBelowLimit(input, format) ==
  IF ~input.isString \/ input.text = "" THEN [valid |-> FALSE, error |-> "Invalid input"]
  ELSE IF Len(input.text) >= MAX_INPUT_LENGTH THEN [valid |-> FALSE, error |-> "Input too long"]
  ELSE IF format \notin OUTPUT_FORMATS THEN [valid |-> FALSE, error |-> "Unsupported output format"]
  ELSE [valid |-> TRUE, error |-> ""]

ValidateInput(input, format) ==
  IF ~input.isString \/ input.text = "" THEN [valid |-> FALSE, error |-> "Invalid input"]
  ELSE IF Len(input.text) > MAX_INPUT_LENGTH THEN [valid |-> FALSE, error |-> "Input too long"]
  ELSE IF format \notin OUTPUT_FORMATS THEN [valid |-> FALSE, error |-> "Unsupported output format"]
  ELSE [valid |-> TRUE, error |-> ""]

\* trimmed.match(/^(first rest*)\s*\{/) once the name is known to end before e:
\* the captured name, "" when no brace follows
HeaderNameTo(t, e) ==
  IF MatchAt(t, "{", SkipWhite(t, e)) THEN SubSeq(t, 1, e - 1) ELSE ""

\* trimmed.match(/^(first rest*)\s*\{/): the captured name, "" when there is no match
HeaderMatch(t, first, rest) ==
  IF Len(t) >= 1 /\ Chr(t, 1) \in first THEN HeaderNameTo(t, RunEnd(t, rest, 2)) ELSE ""

\* /^([A-Z_][A-Z0-9_]*)\s*\{/
EntityHeader(t) == HeaderMatch(t, UpperSet \cup {"_"}, UpperSet \cup DigitSet \cup {"_"})

\* /^([A-Z_]+)\s*\{/
ParserHeader(t) == HeaderMatch(t, UpperSet \cup {"_"}, UpperSet \cup {"_"})

\* the name the loop pushes for one trimmed line, "" when it pushes none
EntityNameOf(trimmed) ==
  IF trimmed # "" /\ ~StartsWith(trimmed, "erDiagram")
     /\ ~Includes(trimmed, "||--") /\ ~Includes(trimmed, "}")
  THEN EntityHeader(trimmed) ELSE ""

PushName(entities, name) == IF name # "" THEN Append(entities, name) ELSE entities

RECURSIVE EntityNamesOf(_, _, _)
EntityNamesOf(lines, i, entities) ==
  IF i > Len(lines) THEN entities
  ELSE EntityNamesOf(lines, i + 1, PushName(entities, EntityNameOf(Trim(lines[i]))))

ExtractEntitiesFromDiagram(diagramCode) ==
  IF diagramCode = "" THEN <<>>
  ELSE Dedup(EntityNamesOf(SplitLines(diagramCode), 1, <<>>))

\* one line of the loop of parseExistingDiagram that is no entity header: the
\* entities after it (open = currentEntity is set: it is the last entity)
PushField(entities, open, trimmed) ==
  IF open /\ trimmed # "" /\ ~Includes(trimmed, "}") /\ ~Includes(trimmed, "||--")
  THEN [entities EXCEPT ![Len(entities)].fields = Append(@, trimmed)]
  ELSE entities

RECURSIVE ParseLines(_, _, _, _)
ParseLine(lines, i, entities, open, trimmed, name) ==
  IF name # ""
  THEN ParseLines(lines, i + 1, Append(entities, [name |-> name, fields |-> <<>>]), TRUE)
  ELSE ParseLines(lines, i + 1, PushField(entities, open, trimmed), open /\ trimmed # "}")

ParseTrimmed(lines, i, entities, open, trimmed) ==
  ParseLine(lines, i, entities, open, trimmed, ParserHeader(trimmed))

ParseLines(lines, i, entities, open) ==
  IF i > Len(lines) THEN entities
  ELSE ParseTrimmed(lines, i, entities, open, Trim(lines[i]))

ParseExistingDiagram(diagramCode) == ParseLines(SplitLines(diagramCode), 1, <<>>, FALSE)

StrongModificationKeywords ==
  <<"add", "include", "also add", "plus", "and also", "extend", "expand",
    "remove", "delete", "drop", "take out", "get rid of",
    "modify", "change", "update", "edit", "alter", "adjust",
    "connect", "link", "relate", "join", "associate",
    "disconnect", "unlink", "separate">>

WeakModificationKeywords ==
  <<"need", "want", "should have", "missing", "forgot",
    "also", "too", "as well", "another", "more">>

\* a weak keyword taken for a modification without a structural noun
WeakSuffices(input) ==
  \/ \E k \in 1..Len(StrongModificationKeywords) : Includes(input, StrongModificationKeywords[k])
  \/ \E k \in 1..Len(WeakModificationKeywords) : Includes(input, WeakModificationKeywords[k])

\* the tests of detectModificationIntent on input, the lower-cased user input
HasModificationKeywords(input) ==
  \/ \E k \in 1..Len(StrongModificationKeywords) : Includes(input, StrongModificationKeywords[k])
  \/ /\ \E k \in 1..Len(WeakModificationKeywords) : Includes(input, WeakModificationKeywords[k])
     /\ \E w \in {"table", "entity", "field"} : Includes(input, w)

DetectModificationIntent(userInput, currentDiagram) ==
  IF currentDiagram = Null THEN FALSE ELSE HasModificationKeywords(ToLowerCase(userInput))

\* the eight regular expressions of addPatterns, in order: the verb, and what
\* follows the optional article: "(\w+) table", "table (called |named )?(\w+)",
\* or "(\w+)(\s|$)"
AddPatterns ==
  <<[verb |-> "add ", form |-> "X_table"],
    [verb |-> "add ", form |-> "table_X"],
    [verb |-> "add ", form |-> "X_end"],
    [verb |-> "include ", form |-> "X_table"],
    [verb |-> "include ", form |-> "X_end"],
    [verb |-> "create ", form |-> "X_table"],
    [verb |-> "need ", form |-> "X_table"],
    [verb |-> "want ", form |-> "X_table"]>>

\* the word a greedy (\w+) captures from position k, "" when there is none
WordAt(s, k) == SubSeq(s, k, RunEnd(s, WordSet, k) - 1)

\* "table (?:called |named )?(\w+)" after "table ": the optional word is tried
\* first, then skipped (backtracking)
NameAfterTable(s, low, m) ==
  IF MatchAt(low, "called ", m) /\ WordAt(s, m + 7) # "" THEN WordAt(s, m + 7)
  ELSE IF MatchAt(low, "named ", m) /\ WordAt(s, m + 6) # "" THEN WordAt(s, m + 6)
  ELSE WordAt(s, m)

\* the rest of a pattern tried at position k (after the verb and the article),
\* w being the word at k
TryFormWord(s, low, form, k, w) ==
  IF form = "X_table"
  THEN (IF w # "" /\ MatchAt(low, " table", k + Len(w)) THEN w ELSE "")
  ELSE IF form = "X_end"
  THEN (IF w # "" /\ (k + Len(w) > Len(s) \/ Chr(s, k + Len(w)) \in WhiteSet) THEN w ELSE "")
  ELSE IF MatchAt(low, "table ", k) THEN NameAfterTable(s, low, k + 6)
  ELSE ""

TryForm(s, low, form, k) == TryFormWord(s, low, form, k, WordAt(s, k))

FirstNonEmpty(a, b, c) == IF a # "" THEN a ELSE IF b # "" THEN b ELSE c

\* one pattern tried with its verb matched and ending before j: the optional
\* article (?:a |an )? is tried first, then skipped (backtracking)
TryAfterVerb(s, low, form, j) ==
  FirstNonEmpty(IF MatchAt(low, "a ", j) THEN TryForm(s, low, form, j + 2) ELSE "",
                IF MatchAt(low, "an ", j) THEN TryForm(s, low, form, j + 3) ELSE "",
                TryForm(s, low, form, j))

\* one pattern tried with its match starting at position i
TryPatternAt(s, low, pat, i) ==
  IF MatchAt(low, pat.verb, i) THEN TryAfterVerb(s, low, pat.form, i + Len(pat.verb)) ELSE ""

\* the capture of the first match among the start positions P, tried from the left
RECURSIVE FirstCapture(_, _, _, _)
CaptureOrNext(s, low, pat, P, capture) ==
  IF capture # "" THEN capture ELSE FirstCapture(s, low, pat, P \ {Min(P)})

FirstCapture(s, low, pat, P) ==
  IF P = {} THEN "" ELSE CaptureOrNext(s, low, pat, P, TryPatternAt(s, low, pat, Min(P)))

\* input.match(pattern)[1]: the capture of the leftmost match, "" when none
PatternCapture(s, low, pat) == FirstCapture(s, low, pat, Occurrences(low, pat.verb))

StopWords == {"new", "another", "more", "also", "table", "entity", "and", "or", "the", "a", "an"}

CommonEntities ==
  {"user", "users", "customer", "customers", "client", "clients",
   "product", "products", "item", "items", "order", "orders",
   "payment", "payments", "review", "reviews", "comment", "comments",
   "category", "categories", "tag", "tags", "address", "addresses",
   "invoice", "invoices", "bill", "bills", "receipt", "receipts",
   "appointment", "appointments", "booking", "bookings",
   "patient", "patients", "doctor", "doctors", "nurse", "nurses",
   "medication", "medications", "prescription", "prescriptions",
   "department", "departments", "employee", "employees",
   "supplier", "suppliers", "vendor", "vendors", "warehouse", "warehouses",
   "inventory", "stock", "shipment", "shipments", "delivery", "deliveries"}

\* the loop over addPatterns from the k-th on: the first capture that is no
\* stop word, "" when there is none
RECURSIVE FirstPatternName(_, _, _)
NameOrNextPattern(s, low, k, tableName) ==
  IF tableName # "" /\ tableName \notin StopWords THEN tableName
  ELSE FirstPatternName(s, low, k + 1)

FirstPatternName(s, low, k) ==
  IF k > Len(AddPatterns) THEN ""
  ELSE NameOrNextPattern(s, low, k, ToLowerCase(PatternCapture(s, low, AddPatterns[k])))

\* word.endsWith('s') ? word.slice(0, -1) : word
Singular(word) ==
  IF Chr(word, Len(word)) = "s" THEN SubSeq(word, 1, Len(word) - 1) ELSE word

\* the loop over words: the first common entity name, made singular
RECURSIVE FirstCommonEntity(_, _)
FirstCommonEntity(words, k) ==
  IF k > Len(words) THEN ""
  ELSE IF words[k] \in CommonEntities THEN Singular(words[k])
  ELSE FirstCommonEntity(words, k + 1)

NameByPatternOrWord(byPattern, lower) ==
  IF byPattern # "" THEN byPattern ELSE FirstCommonEntity(SplitWhite(lower), 1)

NameFromLower(input, lower) == NameByPatternOrWord(FirstPatternName(input, lower, 1), lower)

\* the extracted table name, "" for null
ExtractTableNameFromInput(input) == NameFromLower(input, ToLowerCase(input))


(***************************************************************************)
(* templates.js: the static tables and the canned diagrams                 *)
(***************************************************************************)

\* Object.keys(CONNECTION_RULES), in insertion order
ConnectionRuleKeys ==
  <<"user", "patient", "order", "product", "appointment", "review", "payment", "prescription">>

CONNECTION_RULES ==
  [k \in SeqToSet(ConnectionRuleKeys) |->
     CASE k = "user" -> {"USER", "CUSTOMER", "PATIENT", "DOCTOR"}
       [] k = "patient" -> {"DOCTOR", "HOSPITAL"}
       [] k = "order" -> {"USER", "CUSTOMER"}
       [] k = "product" -> {"CATEGORY", "SUPPLIER"}
       [] k = "appointment" -> {"PATIENT", "DOCTOR"}
       [] k = "review" -> {"USER", "PRODUCT"}
       [] k = "payment" -> {"ORDER", "USER"}
       [] k = "prescription" -> {"PATIENT", "DOCTOR"}]

TableTypeKeys ==
  {"review", "category", "payment", "address", "inventory", "supplier", "pharmacy",
   "prescription", "department"}

TABLE_TYPE_FIELDS ==
  [k \in TableTypeKeys |->
     CASE k = "review" -> <<"int rating", "text comment", "datetime created_at">>
       [] k = "category" -> <<"string description", "string slug">>
       [] k = "payment" -> <<"decimal amount", "string payment_method", "string status",
                             "datetime processed_at">>
       [] k = "address" -> <<"string street", "string city", "string state",
                             "string zip_code", "string country">>
       [] k = "inventory" -> <<"int quantity", "int min_threshold", "datetime last_updated">>
       [] k = "supplier" -> <<"string company_name", "string contact_person", "string email",
                              "string phone">>
       [] k = "pharmacy" -> <<"string address", "string phone", "string license_number">>
       [] k = "prescription" -> <<"text medication", "string dosage", "text instructions",
                                  "datetime prescribed_date">>
       [] k = "department" -> <<"string description", "string location">>]

\* the generic label for every pair
GenericLabel(from, to) == "has"

\* RELATIONSHIP_LABELS[from]?.[to] || 'has'
RelationshipLabel(from, to) ==
  CASE from = "user" /\ to = "review" -> "writes"
    [] from = "user" /\ to = "order" -> "places"
    [] from = "user" /\ to = "payment" -> "makes"
    [] from = "user" /\ to = "address" -> "lives_at"
    [] from = "product" /\ to = "review" -> "receives"
    [] from = "product" /\ to = "category" -> "belongs_to"
    [] from = "product" /\ to = "inventory" -> "has_stock"
    [] from = "order" /\ to = "payment" -> "paid_by"
    [] from = "order" /\ to = "item" -> "contains"
    [] from = "patient" /\ to = "prescription" -> "receives"
    [] from = "patient" /\ to = "appointment" -> "schedules"
    [] from = "doctor" /\ to = "prescription" -> "prescribes"
    [] from = "doctor" /\ to = "appointment" -> "has"
    [] from = "pharmacy" /\ to = "prescription" -> "fills"
    [] OTHER -> "has"

\* The tables are plain object literals: indexed with a name that is a property
\* of Object.prototype they give that inherited value (a function, or the
\* prototype itself), which is truthy and has neither forEach nor includes.
\* These are the inherited names a lower-cased \w+ word can spell.
InheritedProperties == {"constructor", "__proto__"}

MedicalTemplate ==
  "erDiagram\n    PATIENT {\n        int patient_id PK\n        string first_name\n        string last_name\n        string email\n        string phone\n        date date_of_birth\n    }\n    DOCTOR {\n        int doctor_id PK\n        string first_name\n        string last_name\n        string specialty\n        string email\n    }\n    APPOINTMENT {\n        int appointment_id PK\n        int patient_id FK\n        int doctor_id FK\n        datetime appointment_datetime\n        string status\n        text notes\n    }\n    PATIENT ||--o{ APPOINTMENT : books\n    DOCTOR ||--o{ APPOINTMENT : conducts"

CommerceTemplate ==
  "erDiagram\n    USER {\n        int user_id PK\n        string username\n        string email\n        string password_hash\n        datetime created_at\n    }\n    PRODUCT {\n        int product_id PK\n        string name\n        text description\n        decimal price\n        int stock_quantity\n    }\n    ORDER {\n        int order_id PK\n        int user_id FK\n        datetime order_date\n        decimal total_amount\n        string status\n    }\n    ORDER_ITEM {\n        int order_item_id PK\n        int order_id FK\n        int product_id FK\n        int quantity\n        decimal unit_price\n    }\n    USER ||--o{ ORDER : places\n    ORDER ||--o{ ORDER_ITEM : contains\n    PRODUCT ||--o{ ORDER_ITEM : includes"

GenericTemplate ==
  "erDiagram\n    USER {\n        int id PK\n        string name\n        string email\n        datetime created_at\n    }\n    ITEM {\n        int id PK\n        string title\n        text description\n        int user_id FK\n        datetime created_at\n    }\n    USER ||--o{ ITEM : owns"

\* the commerce keywords tested before the medical keywords
CommerceFirst(lower) ==
  IF \E w \in {"ecommerce", "shop", "store", "product"} : Includes(lower, w)
  THEN CommerceTemplate
  ELSE IF \E w \in {"hospital", "medical", "patient"} : Includes(lower, w) THEN MedicalTemplate
  ELSE GenericTemplate

TemplateFor(lower) ==
  IF \E w \in {"hospital", "medical", "patient"} : Includes(lower, w) THEN MedicalTemplate
  ELSE IF \E w \in {"ecommerce", "shop", "store", "product"} : Includes(lower, w)
  THEN CommerceTemplate
  ELSE GenericTemplate

GetTemplateByKeywords(userInput) == TemplateFor(ToLowerCase(userInput))

(***************************************************************************)
(* utils.js: the table synthesizer and the preservation validator          *)
(***************************************************************************)

\* what one existing entity contributes to connections (direct rule, then the
\* reverse rules in key order); newName is lower-cased
ConnectionsOf(newName, entityName) ==
  IF \/ newName \in DOMAIN CONNECTION_RULES /\ entityName \in CONNECTION_RULES[newName]
     \/ \E k \in 1..Len(ConnectionRuleKeys) :
          /\ Includes(ToLowerCase(entityName), ConnectionRuleKeys[k])
          /\ ToUpperCase(newName) \in CONNECTION_RULES[ConnectionRuleKeys[k]]
  THEN <<entityName>> ELSE <<>>

RECURSIVE ConnectionsFrom(_, _, _)
ConnectionsFrom(newName, existingEntities, i) ==
  IF i > Len(existingEntities) THEN <<>>
  ELSE ConnectionsOf(newName, existingEntities[i].name)
         \o ConnectionsFrom(newName, existingEntities, i + 1)

\* the connections read off the rule of the new table alone, whatever entities
\* exist
RuleConnections(newTableName, existingEntities) ==
  SelectSeq(<<"USER", "CUSTOMER", "PATIENT", "DOCTOR", "HOSPITAL", "CATEGORY", "SUPPLIER",
              "PRODUCT", "ORDER">>,
            LAMBDA n : /\ ToLowerCase(newTableName) \in DOMAIN CONNECTION_RULES
                       /\ n \in CONNECTION_RULES[ToLowerCase(newTableName)])

FindPotentialConnections(newTableName, existingEntities) ==
  Dedup(ConnectionsFrom(ToLowerCase(newTableName), existingEntities, 1))

RECURSIVE FieldLines(_, _)
FieldLines(fields, i) ==
  IF i > Len(fields) THEN ""
  ELSE "\n        " \o fields[i] \o FieldLines(fields, i + 1)

RECURSIVE ForeignKeyLines(_, _)
ForeignKeyLines(connections, i) ==
  IF i > Len(connections) THEN ""
  ELSE "\n        int " \o ToLowerCase(connections[i]) \o "_id FK"
         \o ForeignKeyLines(connections, i + 1)

RECURSIVE RelationshipLines(_, _, _)
RelationshipLines(connections, tableName, i) ==
  IF i > Len(connections) THEN ""
  ELSE "\n    " \o connections[i] \o " ||--o{ " \o ToUpperCase(tableName) \o " : "
         \o RelationshipLabel(ToLowerCase(connections[i]), tableName)
         \o RelationshipLines(connections, tableName, i + 1)

\* the fragment for a table name whose lookups in the tables are own properties
NewTableText(tableName, normalizedName, lowerName, connections) ==
  "    " \o normalizedName \o " {\n        int " \o lowerName \o "_id PK"
    \o "\n        string name"
    \o (IF lowerName \in DOMAIN TABLE_TYPE_FIELDS
        THEN FieldLines(TABLE_TYPE_FIELDS[lowerName], 1)
        ELSE "\n        text description\n        datetime created_at")
    \o ForeignKeyLines(connections, 1) \o "\n    }"
    \o RelationshipLines(connections, tableName, 1)

\* the fragment, or the TypeError of calling forEach on an inherited property
GenerateNewTable(tableName, existingEntities) ==
  IF ToLowerCase(tableName) \in InheritedProperties
  THEN Thrown("TypeError: TABLE_TYPE_FIELDS[lowerName].forEach is not a function")
  ELSE Returned(NewTableText(tableName, ToUpperCase(tableName), ToLowerCase(tableName),
                             FindPotentialConnections(tableName, existingEntities)))

\* weaker checks than those of validateModificationPreservesEntities. The first
\* asks for growth alone, the second for no loss and no shrinking.
GrowsOnly(newEntities, originalEntities) == Len(newEntities) > Len(originalEntities)

KeepsOrEchoes(newEntities, originalEntities) ==
  /\ SeqToSet(originalEntities) \subseteq SeqToSet(newEntities)
  /\ Len(newEntities) >= Len(originalEntities)

\* the checks of validateModificationPreservesEntities on the two extracted lists
PreservesEntities(newEntities, originalEntities) ==
  IF Len(SelectSeq(originalEntities, LAMBDA e : e \notin SeqToSet(newEntities))) > 0
  THEN FALSE
  ELSE IF Len(newEntities) <= Len(originalEntities) THEN FALSE
  ELSE TRUE

ValidateModificationPreservesEntities(newDiagram, originalDiagram) ==
  IF originalDiagram = "" \/ newDiagram = "" THEN FALSE
  ELSE PreservesEntities(ExtractEntitiesFromDiagram(newDiagram),
                         ExtractEntitiesFromDiagram(originalDiagram))

RECURSIVE JoinWith(_, _)
JoinWith(q, sep) ==
  IF Len(q) = 0 THEN ""
  ELSE IF Len(q) = 1 THEN q[1]
  ELSE q[1] \o sep \o JoinWith(Tail(q), sep)

SummarizeExchange(userMessage, diagramCode) ==
  "Created diagram with entities: " \o JoinWith(ExtractEntitiesFromDiagram(diagramCode), ", ")


(***************************************************************************)
(* trimmer.js                                                              *)
(***************************************************************************)

\* the Markdown code fence. The backquote character cannot be written in a
\* string of this module, so texts spell it ~ (a character that occurs in no
\* other text here): Fence stands for three backquotes.
Fence == "~~~"

\* the index of the first line whose trimmed lower-cased text starts with
\* erdiagram, 0 when there is none (findIndex)
DiagramStart(lines) ==
  LET hits == {i \in 1..Len(lines) : StartsWith(ToLowerCase(Trim(lines[i])), "erdiagram")}
  IN  IF hits = {} THEN 0 ELSE Min(hits)

\* code.replace(/^erdiagram/i, 'erDiagram') for a code that starts with the keyword
NormalizeDeclaration(code) == "erDiagram" \o SubSeq(code, 10, Len(code))

\* the part of cleanMermaidCode after findIndex (diagramStart is 1-based here)
FromDiagramStart(code, lines, diagramStart) ==
  IF diagramStart >= 1
  THEN NormalizeDeclaration(Trim(JoinLines(SubSeq(lines, diagramStart, Len(lines)))))
  ELSE code

FromLines(code, lines) == FromDiagramStart(code, lines, DiagramStart(lines))

CleanMermaidCode(code) == IF code = "" THEN "" ELSE FromLines(code, SplitLines(code))

\* the four replace calls and the trim
RemoveFences(response) ==
  Trim(RemoveAll(RemoveAll(RemoveAll(RemoveAll(response, Fence \o "mermaid", TRUE),
                                     Fence \o "tikz", TRUE),
                           Fence \o "plantuml", TRUE),
                 Fence, FALSE))

FormatCleanup(diagramCode, format) ==
  IF format = "mermaid" THEN CleanMermaidCode(diagramCode) ELSE diagramCode

CleanDiagramCode(response, format) ==
  IF response = "" THEN "" ELSE FormatCleanup(RemoveFences(response), format)

\* the declaration check alone
DeclarationOnly(code, lines) ==
  IF ~Includes(code, "erDiagram")
  THEN [valid |-> FALSE, error |-> "Missing erDiagram declaration"]
  ELSE [valid |-> TRUE, error |-> ""]

\* the checks of validateMermaidStructure on lines, the non-blank lines of code
StructureOf(code, lines) ==
  IF ~Includes(code, "erDiagram")
  THEN [valid |-> FALSE, error |-> "Missing erDiagram declaration"]
  ELSE IF Len(lines) < 3
  THEN [valid |-> FALSE, error |-> "Diagram too simple or malformed"]
  ELSE IF ~\E i \in 1..Len(lines) : EntityHeader(Trim(lines[i])) # ""
  THEN [valid |-> FALSE, error |-> "No entities found in diagram"]
  ELSE [valid |-> TRUE, error |-> ""]

ValidateMermaidStructure(code) ==
  StructureOf(code, SelectSeq(SplitLines(code), LAMBDA l : Trim(l) # ""))

ValidateDiagramStructure(diagramCode, format) ==
  IF diagramCode = "" THEN [valid |-> FALSE, error |-> "Empty or invalid diagram code"]
  ELSE IF format = "mermaid" THEN ValidateMermaidStructure(diagramCode)
  ELSE [valid |-> TRUE, error |-> ""]

\* the three lines pushed last are all blank
LastThreeEmpty(diagramLines) ==
  \A k \in (Len(diagramLines) - 2)..Len(diagramLines) : Trim(diagramLines[k]) = ""

\* the loop of extractDiagramFromResponse from line i on; diagramLines is what was
\* collected, foundStart whether the start line was seen, trimmed the trimmed
\* lower-cased line and pushed the lines collected with this line added
RECURSIVE CollectDiagram(_, _, _, _, _)
CollectLine(lines, format, i, foundStart, diagramLines, trimmed, pushed) ==
  IF ~foundStart
  THEN IF \E w \in {"erdiagram", "digraph", "@startuml"} : StartsWith(trimmed, w)
       THEN CollectDiagram(lines, format, i + 1, TRUE, pushed)
       ELSE CollectDiagram(lines, format, i + 1, FALSE, diagramLines)
  ELSE IF trimmed = Fence \/ trimmed = "@enduml" THEN diagramLines
  ELSE IF format = "mermaid" /\ trimmed = "" /\ Len(pushed) > 5 /\ LastThreeEmpty(pushed)
  THEN pushed
  ELSE CollectDiagram(lines, format, i + 1, TRUE, pushed)

CollectDiagram(lines, format, i, foundStart, diagramLines) ==
  IF i > Len(lines) THEN diagramLines
  ELSE CollectLine(lines, format, i, foundStart, diagramLines,
                   ToLowerCase(Trim(lines[i])), Append(diagramLines, lines[i]))

ExtractDiagramFromResponse(response, format) ==
  IF response = "" THEN ""
  ELSE Trim(JoinLines(CollectDiagram(SplitLines(response), format, 1, FALSE, <<>>)))

(***************************************************************************)
(* diagramGenerator.js                                                     *)
(***************************************************************************)

\* the preserved diagram with the new table, or the error generateNewTable threw
PreservedDiagram(currentDiagram, newTable) ==
  IF newTable.ok THEN Returned(Trim(currentDiagram) \o "\n" \o newTable.val) ELSE newTable

\* the modification branch of generateConversationalFallback
AddToDiagram(currentDiagram, newTableName) ==
  IF newTableName # ""
  THEN PreservedDiagram(currentDiagram,
                        GenerateNewTable(newTableName, ParseExistingDiagram(currentDiagram)))
  ELSE Returned(currentDiagram)

\* a fallback that answers from the conversation when there is one
FallbackFromHistory(userInput, conversationHistory, currentDiagram) ==
  IF Len(conversationHistory) > 0 THEN Returned(MedicalTemplate)
  ELSE IF DetectModificationIntent(userInput, currentDiagram) /\ currentDiagram # Null
  THEN AddToDiagram(currentDiagram, ExtractTableNameFromInput(userInput))
  ELSE Returned(GetTemplateByKeywords(userInput))

\* the diagram text, or the error generateNewTable throws
GenerateConversationalFallback(userInput, conversationHistory, currentDiagram) ==
  IF DetectModificationIntent(userInput, currentDiagram) /\ currentDiagram # Null
  THEN AddToDiagram(currentDiagram, ExtractTableNameFromInput(userInput))
  ELSE Returned(GetTemplateByKeywords(userInput))

\* a resolved result of generateDiagram; byFallback (not a field of the source's
\* object) records whether generateConversationalFallback supplied diagramCode
Result(diagramCode, format, source, provider, byFallback) ==
  [rejected |-> FALSE, diagramCode |-> diagramCode, format |-> format, source |-> source,
   provider |-> provider, byFallback |-> byFallback, error |-> ""]

Rejection(format, error) ==
  [rejected |-> TRUE, diagramCode |-> "", format |-> format, source |-> "",
   provider |-> "", byFallback |-> FALSE, error |-> error]

\* the return after the fallback supplied the diagram, or the error the fallback
\* threw
FallbackResult(fallback, format, source, provider) ==
  IF fallback.ok THEN Returned(Result(fallback.val, format, source, provider, TRUE))
  ELSE fallback

\* the final validation of diagramCode and the return; replaced tells whether the
\* fallback supplied diagramCode at the preservation check
ValidatedResult(userPrompt, format, conversationHistory, currentDiagram, diagramCode, replaced) ==
  IF ~ValidateDiagramStructure(diagramCode, format).valid
  THEN FallbackResult(GenerateConversationalFallback(userPrompt, conversationHistory,
                                                     currentDiagram),
                      format, "groq_conversational", "groq")
  ELSE Returned(Result(diagramCode, format, "groq_conversational", "groq", replaced))

\* the rest of the try block once the fallback was called at the preservation check
AfterFallback(userPrompt, format, conversationHistory, currentDiagram, fallback) ==
  IF fallback.ok
  THEN ValidatedResult(userPrompt, format, conversationHistory, currentDiagram,
                       fallback.val, TRUE)
  ELSE fallback

\* the preservation check of a modification request, and what follows it
PreservationChecked(userPrompt, format, conversationHistory, currentDiagram, diagramCode) ==
  IF /\ DetectModificationIntent(userPrompt, currentDiagram) /\ currentDiagram # Null
     /\ ~ValidateModificationPreservesEntities(diagramCode, currentDiagram)
  THEN AfterFallback(userPrompt, format, conversationHistory, currentDiagram,
                     GenerateConversationalFallback(userPrompt, conversationHistory,
                                                    currentDiagram))
  ELSE ValidatedResult(userPrompt, format, conversationHistory, currentDiagram,
                       diagramCode, FALSE)

\* the additional extraction when the cleaned text lacks the declaration
ExtractedIfNeeded(response, format, cleaned) ==
  IF ~Includes(cleaned, "erDiagram") THEN ExtractDiagramFromResponse(response, format)
  ELSE cleaned

\* the try block after callGroq returned response: the result it returns, or the
\* error thrown inside it
GenerateFromResponse(userPrompt, format, conversationHistory, currentDiagram, response) ==
  IF response = "" \/ Len(response) < 10
  THEN FallbackResult(GenerateConversationalFallback(userPrompt, conversationHistory,
                                                     currentDiagram),
                      format, "conversational_fallback", "template")
  ELSE PreservationChecked(userPrompt, format, conversationHistory, currentDiagram,
                           ExtractedIfNeeded(response, format,
                                             CleanDiagramCode(response, format)))

\* the catch block: the fallback result, or generateDiagram rejects with the error
\* the fallback threw
CatchResult(format, fallback) ==
  IF fallback.ok
  THEN Result(fallback.val, format, "conversational_fallback_on_error", "template", TRUE)
  ELSE Rejection(format, fallback.val)

\* what generateDiagram settles with, tried being the outcome of its try block
Settled(userPrompt, format, conversationHistory, currentDiagram, tried) ==
  IF tried.ok THEN tried.val
  ELSE CatchResult(format, GenerateConversationalFallback(userPrompt, conversationHistory,
                                                          currentDiagram))

\* generateDiagram once callGroq has settled: llm is what it returned or threw
GenerateDiagram(userPrompt, format, conversationHistory, currentDiagram, llm) ==
  Settled(userPrompt, format, conversationHistory, currentDiagram,
          IF llm.ok
          THEN GenerateFromResponse(userPrompt, format, conversationHistory,
                                    currentDiagram, llm.val)
          ELSE llm)


(***************************************************************************)
(* Bounds of the model                                                     *)
(***************************************************************************)

\* callGroq calls in a behaviour of Spec
MaxCalls == 3

\* callGroq calls in a behaviour of SpecHistory
MaxHistoryCalls == 11

\* handlers suspended at the same time
MaxInFlight == 2

\* ids uuidv4() produces in a behaviour
MaxUuids == 1

\* entity names the diagrams of SpecGen are built from
MaxEntities == 3

\* callGroq calls in a behaviour of SpecInput
MaxInputCalls == 2

MaxSweepCalls == 2

MaxSweeps == 2

MaxDays == 2

MaxMillis == 1

\* callGroq calls in a behaviour of SpecLive
MaxLiveCalls == 3

\* callGroq calls in a behaviour of SpecCache
MaxCacheCalls == 12

(***************************************************************************)
(* server.js: the state of the process                                     *)
(*                                                                         *)
(* Session objects live in a heap and are held by reference: the Map       *)
(* conversationSessions and every handler suspended at its await hold      *)
(* references to them, so a write through one reference is seen through    *)
(* all. Timestamps (createdAt, timestamp) are read off clock.              *)
(***************************************************************************)

VARIABLES
  apiKey,                \* CONFIG.GROQ_API_KEY is set
  conversationSessions,  \* the Map: session id -> reference of its session object
  heap,                  \* reference -> session object
  cache,                 \* the NodeCache: key -> the result stored under it
  inflight,              \* the handlers of POST /api/diagram suspended at await callGroq
  response,              \* the HTTP response sent last, with the request it answers
  uuids,                 \* how many ids uuidv4() has produced
  llmCalls,              \* how many times callGroq was called
  call,                  \* an invocation of a pure function, with its arguments and outcome
  clock,                 \* new Date(), in milliseconds
  sweeps                 \* the runs of cleanupOldSessions so far

vars ==
  <<apiKey, conversationSessions, heap, cache, inflight, response, uuids, llmCalls, call,
    clock, sweeps>>

serverVars ==
  <<apiKey, conversationSessions, heap, cache, inflight, response, uuids, llmCalls, clock,
    sweeps>>

\* String(n)
RECURSIVE NumStr(_)
NumStr(n) ==
  IF n < 10 THEN Chr(DigitChars, n + 1)
  ELSE NumStr(n \div 10) \o Chr(DigitChars, (n % 10) + 1)

\* s.replace(/\s+/g, '_') from position i on
RECURSIVE UnderscoreWhite(_, _)
UnderscoreWhite(s, i) ==
  IF i > Len(s) THEN ""
  ELSE IF Chr(s, i) \in WhiteSet THEN "_" \o UnderscoreWhite(s, SkipWhite(s, i))
  ELSE LET b == RunEndNot(s, WhiteSet, i)
       IN  SubSeq(s, i, b - 1) \o UnderscoreWhite(s, b)

CacheKey(format, session, userPrompt) ==
  "conv_" \o format \o "_" \o session.id \o "_"
    \o UnderscoreWhite(ToLowerCase(userPrompt), 1) \o "_" \o NumStr(Len(session.history))

\* the id uuidv4() produces on its n-th call: a fresh one each time
Uuid(n) == "u" \o NumStr(n)

\* a session object as the handler creates it; log (not a field of the source's
\* object) keeps every exchange ever pushed to history, truncated or not, each
\* with the diagram its handler had read from the session
NewSession(id) ==
  [id |-> id, history |-> <<>>, currentDiagram |-> Null, createdAt |-> clock, log |-> <<>>]

FreshRef == Min({r \in 1..(Cardinality(DOMAIN heap) + 1) : r \notin DOMAIN heap})

\* the objects still referenced by the Map or by a suspended handler; the rest is
\* garbage
Collect(h, sessions, handlers) ==
  LET used == {sessions[id] : id \in DOMAIN sessions}
                \cup {handlers[i].session : i \in 1..Len(handlers)}
  IN  [r \in DOMAIN h \cap used |-> h[r]]

\* conversationSessions.get(sessionId) || { id: sessionId || uuidv4(), ... }
\* followed by the update of currentDiagram when the request carries one
SessionOf(req) ==
  LET stored == req.sessionId # Null /\ req.sessionId \in DOMAIN conversationSessions
      ref == IF stored THEN conversationSessions[req.sessionId] ELSE FreshRef
      id == IF req.sessionId # Null THEN req.sessionId ELSE Uuid(uuids + 1)
      got == IF stored THEN heap ELSE heap @@ (ref :> NewSession(id))
  IN  [ref |-> ref,
       heap |-> IF req.currentDiagram # Null
                THEN [got EXCEPT ![ref].currentDiagram = req.currentDiagram]
                ELSE got]

\* history.slice(0, MAX_CONVERSATION_HISTORY): the oldest entries kept
KeepOldest(history) ==
  SubSeq(history, 1, Min({Len(history), MAX_CONVERSATION_HISTORY}))

\* session.history.slice(-MAX_CONVERSATION_HISTORY) when the cap is exceeded
TruncateHistory(history) ==
  IF Len(history) > MAX_CONVERSATION_HISTORY
  THEN SubSeq(history, Len(history) - MAX_CONVERSATION_HISTORY + 1, Len(history))
  ELSE history

\* session.currentDiagram as it is when the handler resumes
DiagramAtResume(handler, session) == session.currentDiagram

\* the currentDiagram argument of generateDiagram: session.currentDiagram as it
\* was when the handler made the call, before the await
DiagramArgument(handler, session) == handler.currentDiagram

RemoveAt(q, i) == SubSeq(q, 1, i - 1) \o SubSeq(q, i + 1, Len(q))

NoRequest == [message |-> NotAString, format |-> "", sessionId |-> Null, currentDiagram |-> Null]

Response(kind, status, req, diagramCode, source, sessionId, error) ==
  [kind |-> kind, status |-> status, request |-> req, diagramCode |-> diagramCode,
   source |-> source, sessionId |-> sessionId, error |-> error]

NoResponse == Response("none", 0, NoRequest, "", "", "", "")

\* no pure function invoked: fn names the function once one is, and the other
\* fields hold its arguments and its outcome
NoCall ==
  [fn |-> "none", userPrompt |-> "", format |-> "", currentDiagram |-> Null,
   llm |-> Returned(""), newDiagram |-> "", result |-> Rejection("", ""),
   fallback |-> Returned(""), preserved |-> FALSE,
   tableName |-> "", table |-> Returned(""), detected |-> FALSE]


(***************************************************************************)
(* server.js: POST /api/diagram. The handler runs without interruption up  *)
(* to await generateDiagram(...), which suspends it at await callGroq(...),*)
(* and again from the moment callGroq settles to the response.             *)
(***************************************************************************)

\* validateInput fails: 400
PostReject(req) ==
  LET validation == ValidateInput(req.message, req.format)
  IN  /\ ~validation.valid
      /\ response' = Response("rejected", 400, req, "", "", "", validation.error)
      /\ UNCHANGED <<apiKey, conversationSessions, heap, cache, inflight, uuids, llmCalls, call, clock, sweeps>>

\* no API key: 500
PostNoKey(req) ==
  /\ ValidateInput(req.message, req.format).valid
  /\ ~apiKey
  /\ response' = Response("nokey", 500, req, "", "", "", "No Groq API key configured")
  /\ UNCHANGED <<apiKey, conversationSessions, heap, cache, inflight, uuids, llmCalls, call, clock, sweeps>>

\* the cache holds the key: the cached result is returned
PostCached(req) ==
  LET got == SessionOf(req)
      session == got.heap[got.ref]
      cacheKey == CacheKey(req.format, session, req.message.text)
      cached == cache[cacheKey]
  IN  /\ ValidateInput(req.message, req.format).valid
      /\ apiKey
      /\ req.sessionId = Null => uuids < MaxUuids
      /\ cacheKey \in DOMAIN cache
      /\ heap' = Collect(got.heap, conversationSessions, inflight)
      /\ uuids' = IF req.sessionId = Null THEN uuids + 1 ELSE uuids
      /\ response' = Response("cached", 200, req, cached.diagramCode, "cache", session.id, "")
      /\ UNCHANGED <<apiKey, conversationSessions, cache, inflight, llmCalls, call, clock, sweeps>>

\* a cache miss: generateDiagram is called and calls callGroq; the handler is
\* suspended
PostBegin(req) ==
  LET got == SessionOf(req)
      session == got.heap[got.ref]
      cacheKey == CacheKey(req.format, session, req.message.text)
  IN  /\ ValidateInput(req.message, req.format).valid
      /\ apiKey
      /\ req.sessionId = Null => uuids < MaxUuids
      /\ Len(inflight) < MaxInFlight
      /\ cacheKey \notin DOMAIN cache
      /\ heap' = got.heap
      /\ uuids' = IF req.sessionId = Null THEN uuids + 1 ELSE uuids
      /\ inflight' = Append(inflight, [request |-> req, session |-> got.ref,
                                       cacheKey |-> cacheKey,
                                       currentDiagram |-> session.currentDiagram])
      /\ llmCalls' = llmCalls + 1
      /\ UNCHANGED <<apiKey, conversationSessions, cache, response, call, clock, sweeps>>

\* the entry pushed to session.history
Exchange(userMessage, diagramCode) ==
  [userMessage |-> userMessage,
   assistantSummary |-> SummarizeExchange(userMessage, diagramCode),
   timestamp |-> clock]

\* the session after the update with the new exchange; read is the diagram the
\* handler passed to generateDiagram
Updated(session, diagramCode, exchange, read) ==
  [session EXCEPT !.currentDiagram = diagramCode,
                  !.history = TruncateHistory(Append(session.history, exchange)),
                  !.log = Append(session.log, [exchange |-> exchange, read |-> read])]

\* the i-th suspended handler resumes with the outcome of await generateDiagram(...)
Resume(i, handler, session, result) ==
  /\ inflight' = RemoveAt(inflight, i)
  /\ IF result.rejected
     THEN /\ response' = Response("failed", 500, handler.request, "", "", "",
                                  "Internal server error")
          /\ heap' = Collect(heap, conversationSessions, RemoveAt(inflight, i))
          /\ UNCHANGED <<conversationSessions, cache>>
     ELSE /\ heap' = [heap EXCEPT ![handler.session] =
                        Updated(session, result.diagramCode,
                                Exchange(handler.request.message.text, result.diagramCode),
                                handler.currentDiagram)]
          /\ conversationSessions' = (session.id :> handler.session) @@ conversationSessions
          /\ cache' = (handler.cacheKey :>
                         [diagramCode |-> result.diagramCode, format |-> result.format,
                          source |-> result.source, provider |-> result.provider,
                          sessionId |-> session.id]) @@ cache
          /\ response' = Response("generated", 200, handler.request, result.diagramCode,
                                  result.source, session.id, "")
  /\ UNCHANGED <<apiKey, uuids, call, clock, sweeps>>

\* generateDiagram as the handler called it, callGroq settling with llm
Generated(handler, session, llm) ==
  GenerateDiagram(handler.request.message.text, handler.request.format, session.history,
                  DiagramArgument(handler, session), llm)

\* a second call of callGroq when the first one threw
RetryOnFailure(llm) == IF llm.ok THEN 0 ELSE 1

\* the calls of callGroq generateDiagram makes after the awaited one settled
\* with llm: none on any path, the fallback takes over
CallsAfterSettling(llm) == 0

\* callGroq settles with llm for the i-th suspended handler, which runs to its
\* response
PostFinish(i, llm) ==
  /\ Resume(i, inflight[i], heap[inflight[i].session],
            Generated(inflight[i], heap[inflight[i].session], llm))
  /\ llmCalls' = llmCalls + CallsAfterSettling(llm)

CLEANUP_THRESHOLD == 24 * 60 * 60 * 1000

\* the time of the last history entry, or createdAt when there is none
LastActivity(session) ==
  IF Len(session.history) > 0
  THEN session.history[Len(session.history)].timestamp
  ELSE session.createdAt

\* a session evicted as soon as it is 24 hours old
ExpiredAtThreshold(session, now) == now - LastActivity(session) >= CLEANUP_THRESHOLD

\* now - lastActivity > CLEANUP_THRESHOLD
Expired(session, now) == now - LastActivity(session) > CLEANUP_THRESHOLD

\* one run of cleanupOldSessions, started by setInterval or at listen
CleanupOldSessions ==
  LET kept == {id \in DOMAIN conversationSessions :
                 ~Expired(heap[conversationSessions[id]], clock)}
      remaining == [id \in kept |-> conversationSessions[id]]
  IN  /\ conversationSessions' = remaining
      /\ heap' = Collect(heap, remaining, inflight)
      /\ sweeps' = sweeps + 1
      /\ UNCHANGED <<apiKey, cache, inflight, response, uuids, llmCalls, call, clock>>

\* d milliseconds pass
Tick(d) ==
  /\ clock' = clock + d
  /\ UNCHANGED <<apiKey, conversationSessions, heap, cache, inflight, response, uuids,
                 llmCalls, call, sweeps>>

\* DELETE /api/conversation/:sessionId
DeleteConversation(sessionId) ==
  LET existed == sessionId \in DOMAIN conversationSessions
      remaining == [id \in DOMAIN conversationSessions \ {sessionId} |->
                      conversationSessions[id]]
  IN  /\ conversationSessions' = remaining
      /\ heap' = Collect(heap, remaining, inflight)
      /\ response' = IF existed
                     THEN Response("cleared", 200, NoRequest, "", "", sessionId, "")
                     ELSE Response("notfound", 404, NoRequest, "", "", sessionId,
                                   "Session not found")
      /\ UNCHANGED <<apiKey, cache, inflight, uuids, llmCalls, call, clock, sweeps>>


(***************************************************************************)
(* The pure functions, each invoked on the arguments Init drew             *)
(***************************************************************************)

\* generateDiagram, with callGroq settling with llm
CallGenerateDiagram(llm) ==
  /\ call.fn = "none"
  /\ call' = [call EXCEPT
                !.fn = "generateDiagram",
                !.llm = llm,
                !.result = GenerateDiagram(call.userPrompt, call.format, <<>>,
                                           call.currentDiagram, llm)]
  /\ UNCHANGED serverVars

CallFallback ==
  /\ call.fn = "none"
  /\ call' = [call EXCEPT
                !.fn = "generateConversationalFallback",
                !.fallback = GenerateConversationalFallback(call.userPrompt, <<>>,
                                                            call.currentDiagram)]
  /\ UNCHANGED serverVars

\* validateModificationPreservesEntities(newDiagram, call.currentDiagram)
CallValidate(newDiagram) ==
  /\ call.fn = "none"
  /\ call' = [call EXCEPT
                !.fn = "validateModificationPreservesEntities",
                !.newDiagram = newDiagram,
                !.preserved = ValidateModificationPreservesEntities(newDiagram,
                                                                    call.currentDiagram)]
  /\ UNCHANGED serverVars

\* generateNewTable for the table name extractTableNameFromInput finds in the
\* user text, on the entities parseExistingDiagram finds in the current diagram
CallGenerateNewTable ==
  /\ call.fn = "none"
  /\ ExtractTableNameFromInput(call.userPrompt) # ""
  /\ call' = [call EXCEPT
                !.fn = "generateNewTable",
                !.tableName = ExtractTableNameFromInput(call.userPrompt),
                !.table = GenerateNewTable(ExtractTableNameFromInput(call.userPrompt),
                                           ParseExistingDiagram(call.currentDiagram))]
  /\ UNCHANGED serverVars

\* detectModificationIntent(call.userPrompt, call.currentDiagram)
CallDetect ==
  /\ call.fn = "none"
  /\ call' = [call EXCEPT
                !.fn = "detectModificationIntent",
                !.detected = DetectModificationIntent(call.userPrompt, call.currentDiagram)]
  /\ UNCHANGED serverVars

(***************************************************************************)
(* Inputs                                                                  *)
(***************************************************************************)

EntityPool == <<"USER", "PRODUCT", "REVIEW", "TAG">>

PoolNames == SeqToSet(SubSeq(EntityPool, 1, Min({MaxEntities, Len(EntityPool)})))

\* the names of S in the order of the pool
InPoolOrder(S) == SelectSeq(EntityPool, LAMBDA n : n \in S)

Block(name) == "    " \o name \o " {\n        int id PK\n    }"

DiagramOf(names) == "erDiagram\n" \o JoinLines([i \in 1..Len(names) |-> Block(names[i])])

PoolDiagrams(sizes) ==
  {DiagramOf(InPoolOrder(S)) : S \in {T \in SUBSET PoolNames : Cardinality(T) \in sizes}}

GenPrompts ==
  {"hello", "add a review table", "add a constructor table", "update it", "add 2fa table",
   "remove the review table"}

GenFormats == {"mermaid", "tikz"}

GenDiagrams == {Null, "graph TD\n    A --> B"} \cup PoolDiagrams({1, 2})

\* what callGroq may return
LlmTexts ==
  {"", "Sorry", "I cannot draw that diagram.",
   "erDiagram\n    USER ||--o{ ORDER : places",
   DiagramOf(<<"USER", "USER">>),
   "Here is your diagram:\n" \o Fence \o "mermaid\n" \o DiagramOf(InPoolOrder(PoolNames))
     \o "\n" \o Fence \o "\nLet me know.",
   "ERDIAGRAM\n" \o Block("USER") \o "\n" \o Block("ORDER_2"),
   "\\begin{tikzpicture}\n\\node (user) {USER};\n\\end{tikzpicture}"}
    \cup PoolDiagrams(1..MaxEntities)

LlmOutcomes ==
  {Thrown("Failed to call Groq: Request failed with status code 500")}
    \cup {Returned(t) : t \in LlmTexts}

InitServer ==
  /\ conversationSessions = << >>
  /\ heap = << >>
  /\ cache = << >>
  /\ inflight = << >>
  /\ response = NoResponse
  /\ uuids = 0
  /\ llmCalls = 0
  /\ clock = 0
  /\ sweeps = 0

InitGen ==
  /\ apiKey = TRUE
  /\ InitServer
  /\ \E userPrompt \in GenPrompts, format \in GenFormats, currentDiagram \in GenDiagrams :
       call = [NoCall EXCEPT !.userPrompt = userPrompt, !.format = format,
                             !.currentDiagram = currentDiagram]

NextGen ==
  \/ \E llm \in LlmOutcomes : CallGenerateDiagram(llm)
  \/ CallFallback
  \/ \E newDiagram \in LlmTexts \cup GenDiagrams : CallValidate(newDiagram)

SpecGen == InitGen /\ [][NextGen]_vars



(***************************************************************************)
(* The server and its clients                                              *)
(***************************************************************************)

\* s repeated n times
RECURSIVE Repeat(_, _)
Twice(t) == t \o t

Repeat(s, n) ==
  IF n = 0 THEN ""
  ELSE IF n % 2 = 1 THEN s \o Repeat(s, n - 1)
  ELSE Twice(Repeat(s, n \div 2))

\* the session ids a client can send: none, one of its own making, or one a
\* response told it
ClientSessionIds == {Null, "s1"} \cup {Uuid(k) : k \in 1..uuids}

Request(message, format, sessionId, currentDiagram) ==
  [message |-> message, format |-> format, sessionId |-> sessionId,
   currentDiagram |-> currentDiagram]

ValidRequests ==
  {Request(Str(m), "mermaid", "s1", Null) :
     m \in {"add a review table", "add a tag table"}}
    \cup {Request(Str("add a constructor table"), "mermaid", "s1", DiagramOf(<<"USER">>))}

EmptyMessage == Request(Str(""), "mermaid", "s1", Null)

Requests == ValidRequests \cup {EmptyMessage}

\* what callGroq may settle with in Spec
ServerLlm ==
  {Thrown("Failed to call Groq: Request failed with status code 500"),
   Returned(DiagramOf(<<"USER", "ITEM", "ORDER">>))}

Init ==
  /\ apiKey \in BOOLEAN
  /\ InitServer
  /\ call = NoCall

Next ==
  \/ \E req \in Requests : PostReject(req)
  \/ \E req \in Requests : PostNoKey(req)
  \/ \E req \in Requests : PostCached(req)
  \/ \E req \in Requests : llmCalls < MaxCalls /\ PostBegin(req)
  \/ \E i \in 1..Len(inflight), llm \in ServerLlm : PostFinish(i, llm)
  \/ \E sessionId \in ClientSessionIds \ {Null} : DeleteConversation(sessionId)

Spec == Init /\ [][Next]_vars

(***************************************************************************)
(* Handlers whose call of callGroq settles                                 *)
(***************************************************************************)

\* clients of session s1 that ask for a review, a tag and a constructor table,
\* without awaiting the answers
LiveRequests ==
  {Request(Str("add a review table"), "mermaid", "s1", Null),
   Request(Str("add a tag table"), "mermaid", "s1", Null),
   Request(Str("add a constructor table"), "mermaid", "s1", DiagramOf(<<"USER">>))}

InitLive ==
  /\ apiKey = TRUE
  /\ InitServer
  /\ call = NoCall

Settle == \E i \in 1..Len(inflight), llm \in ServerLlm : PostFinish(i, llm)

NextLive ==
  \/ \E req \in LiveRequests : llmCalls < MaxLiveCalls /\ PostBegin(req)
  \/ Settle

\* every call of callGroq eventually returns or throws: weak fairness of Settle,
\* with ENABLED <<Settle>>_vars written out as inflight # <<>>
SettlesInTheEnd == []<>(inflight = <<>>) \/ []<><<Settle>>_vars

SpecLive == InitLive /\ [][NextLive]_vars /\ SettlesInTheEnd

(***************************************************************************)
(* One session and many exchanges                                          *)
(***************************************************************************)

\* a client that numbers its messages, sends them to one of two sessions and
\* awaits each answer before it sends the next
HistorySessionIds == {"s1", "s2"}

NextMessage(sessionId) ==
  Request(Str("note " \o NumStr(llmCalls + 1)), "mermaid", sessionId, Null)

InitHistory ==
  /\ apiKey = TRUE
  /\ InitServer
  /\ call = NoCall

NextHistory ==
  \/ \E sessionId \in HistorySessionIds :
       PostReject(Request(Str(""), "mermaid", sessionId, Null))
  \/ \E sessionId \in HistorySessionIds :
       /\ llmCalls < MaxHistoryCalls
       /\ inflight = <<>>
       /\ PostBegin(NextMessage(sessionId))
  \/ \E i \in 1..Len(inflight) :
       PostFinish(i, Thrown("Failed to call Groq: Request failed with status code 500"))

SpecHistory == InitHistory /\ [][NextHistory]_vars

(***************************************************************************)
(* Requests at the edge of validateInput                                   *)
(***************************************************************************)

LongestMessage ==
  Request(Str(Repeat("a", MAX_INPUT_LENGTH)), "plantuml", Null, Null)

InvalidRequests ==
  {Request(m, "mermaid", sessionId, Null) :
     m \in {Str(""), NotAString, Str(Repeat("a", MAX_INPUT_LENGTH + 1))},
     sessionId \in {Null, "s1"}}
    \cup {Request(Str("hello"), "svg", "s1", Null)}

InputRequests ==
  {LongestMessage, Request(Str("hello"), "mermaid", "s1", Null)} \cup InvalidRequests

InitInput ==
  /\ apiKey = TRUE
  /\ InitServer
  /\ call = NoCall

NextInput ==
  \/ \E req \in InputRequests : PostReject(req)
  \/ \E req \in InputRequests : llmCalls < MaxInputCalls /\ PostBegin(req)
  \/ \E i \in 1..Len(inflight) :
       PostFinish(i, Thrown("Failed to call Groq: Request failed with status code 500"))

SpecInput == InitInput /\ [][NextInput]_vars

(***************************************************************************)
(* The table synthesizer on the names the extractor returns                *)
(***************************************************************************)

SynthPrompts ==
  {"add a review table", "add a tag table", "add 2fa table", "add an oauth2 table",
   "add a constructor table", "add a payment table", "add a user_profile table",
   "I want more users"}

SynthDiagrams ==
  {"graph TD\n    A --> B",
   DiagramOf(<<"USER">>), DiagramOf(<<"USER", "PRODUCT">>), DiagramOf(<<"PRODUCT", "USER">>),
   DiagramOf(<<"ORDER", "USER">>), DiagramOf(<<"CUSTOMER", "ORDER_2">>),
   DiagramOf(<<"PATIENT", "DOCTOR">>) \o "\n    PATIENT ||--o{ DOCTOR : sees"}

InitSynth ==
  /\ apiKey = TRUE
  /\ InitServer
  /\ \E userPrompt \in SynthPrompts, currentDiagram \in SynthDiagrams :
       call = [NoCall EXCEPT !.userPrompt = userPrompt, !.currentDiagram = currentDiagram]

NextSynth == CallGenerateNewTable

SpecSynth == InitSynth /\ [][NextSynth]_vars

(***************************************************************************)
(* The intent detector and the fallback on user texts                      *)
(***************************************************************************)

TextPrompts ==
  {"I need another table for payments", "I need a vacation", "add a review table",
   "Create a hospital database", "a hospital shop", "an online store", "hello",
   "show the patient records", "I want more fields", "Update the diagram",
   "too many products", "what is my address", "credit card"}

TextDiagrams ==
  {Null, "graph TD\n    A --> B",
   DiagramOf(<<"USER", "PRODUCT">>), DiagramOf(<<"PRODUCT", "USER">>)}

InitText ==
  /\ apiKey = TRUE
  /\ InitServer
  /\ \E userPrompt \in TextPrompts, currentDiagram \in TextDiagrams :
       call = [NoCall EXCEPT !.userPrompt = userPrompt, !.currentDiagram = currentDiagram]

NextText ==
  \/ CallDetect
  \/ CallFallback

SpecText == InitText /\ [][NextText]_vars

(***************************************************************************)
(* Sessions that age                                                       *)
(***************************************************************************)

\* a client of two sessions that numbers its messages and awaits each answer,
\* while time passes by a day or by a millisecond and the sweep runs
TickSteps == {1, CLEANUP_THRESHOLD}

InitSweep ==
  /\ apiKey = TRUE
  /\ InitServer
  /\ call = NoCall

NextSweep ==
  \/ \E sessionId \in HistorySessionIds :
       /\ llmCalls < MaxSweepCalls
       /\ inflight = <<>>
       /\ PostBegin(NextMessage(sessionId))
  \/ \E i \in 1..Len(inflight) :
       PostFinish(i, Thrown("Failed to call Groq: Request failed with status code 500"))
  \/ \E d \in TickSteps :
       /\ clock + d <= MaxDays * CLEANUP_THRESHOLD + MaxMillis
       /\ d < CLEANUP_THRESHOLD => clock % CLEANUP_THRESHOLD < MaxMillis
       /\ Tick(d)
  \/ sweeps < MaxSweeps /\ CleanupOldSessions

SpecSweep == InitSweep /\ [][NextSweep]_vars

(***************************************************************************)
(* A session at the history cap                                            *)
(***************************************************************************)

\* a client of session s1 that awaits each answer: it sends numbered notes until
\* the stored history is full, then asks for a review table or a tag table; it
\* may clear the conversation at any time
HistoryFull ==
  /\ "s1" \in DOMAIN conversationSessions
  /\ Len(heap[conversationSessions["s1"]].history) >= MAX_CONVERSATION_HISTORY

CacheRequests ==
  IF HistoryFull
  THEN {Request(Str("add a review table"), "mermaid", "s1", Null),
        Request(Str("add a tag table"), "mermaid", "s1", Null)}
  ELSE {NextMessage("s1")}

InitCache ==
  /\ apiKey = TRUE
  /\ InitServer
  /\ call = NoCall

NextCache ==
  \/ \E req \in CacheRequests : inflight = <<>> /\ PostCached(req)
  \/ \E req \in CacheRequests : llmCalls < MaxCacheCalls /\ inflight = <<>> /\ PostBegin(req)
  \/ \E i \in 1..Len(inflight) :
       PostFinish(i, Thrown("Failed to call Groq: Request failed with status code 500"))
  \/ DeleteConversation("s1")

SpecCache == InitCache /\ [][NextCache]_vars

(***************************************************************************)
(* Properties of generateDiagram and its helpers (SpecGen)                 *)
(***************************************************************************)

EntitySet(diagramCode) == SeqToSet(ExtractEntitiesFromDiagram(diagramCode))

\* generateDiagram was called on the edit path: the request classifies as a
\* modification and a current diagram exists
OnEditPath ==
  /\ call.fn = "generateDiagram"
  /\ call.currentDiagram # Null
  /\ DetectModificationIntent(call.userPrompt, call.currentDiagram)

\* text holds an entity block: a header line NAME { and a later line that closes it
HasEntityBlock(text) ==
  LET lines == SplitLines(text)
  IN  \E i \in 1..Len(lines) :
        /\ EntityHeader(Trim(lines[i])) # ""
        /\ \E j \in (i + 1)..Len(lines) : Trim(lines[j]) = "}"

\* C1: whatever callGroq does, generateDiagram resolves (it never rejects) and
\* the diagramCode of its result is a non-empty string.
C1_AlwaysResolves ==
  call.fn = "generateDiagram" =>
    /\ ~call.result.rejected
    /\ call.result.diagramCode # ""

\* C1: a call of generateDiagram that rejected
C1_Rejected ==
  /\ call.fn = "generateDiagram"
  /\ call.result.rejected

\* C2: on the edit path, whatever the LLM returned, the diagram generateDiagram
\* returns contains every entity name extractEntitiesFromDiagram finds in the
\* current diagram.
C2_EditKeepsEntities ==
  (OnEditPath /\ ~call.result.rejected) =>
    EntitySet(call.currentDiagram) \subseteq EntitySet(call.result.diagramCode)

\* C2: the LLM answered an edit with a diagram that has more entities than the
\* current one and lacks one of them, and generateDiagram returned a diagram
C2_LlmDroppedEntity ==
  /\ OnEditPath
  /\ ~call.result.rejected
  /\ call.llm.ok
  /\ Cardinality(EntitySet(call.llm.val)) > Cardinality(EntitySet(call.currentDiagram))
  /\ ~(EntitySet(call.currentDiagram) \subseteq EntitySet(call.llm.val))

\* C3: the source of a result is the LLM tag only when diagramCode is the text
\* of the LLM; a result whose diagramCode generateConversationalFallback
\* supplied carries a fallback tag.
C3_SourceTellsOrigin ==
  (call.fn = "generateDiagram" /\ ~call.result.rejected /\ call.result.byFallback) =>
    call.result.source \in {"conversational_fallback", "conversational_fallback_on_error"}

\* C3: a result tagged as the work of the LLM whose diagramCode the fallback supplied
C3_FallbackTaggedLlm ==
  /\ call.fn = "generateDiagram"
  /\ ~call.result.rejected
  /\ call.result.byFallback
  /\ call.result.source = "groq_conversational"

\* C5: generateConversationalFallback returns, without throwing, a non-empty
\* string that holds at least one entity block, for every user text and every
\* current diagram.
C5_FallbackTotal ==
  call.fn = "generateConversationalFallback" =>
    /\ call.fallback.ok
    /\ call.fallback.val # ""
    /\ HasEntityBlock(call.fallback.val)

\* C5: a call of generateConversationalFallback that threw
C5_FallbackThrew ==
  /\ call.fn = "generateConversationalFallback"
  /\ ~call.fallback.ok

\* C10: validateModificationPreservesEntities(new, original) is true exactly
\* when both texts are non-empty, every entity name of the original is one of
\* the new diagram, and the new diagram has strictly more distinct names.
C10_StrictSuperset ==
  call.fn = "validateModificationPreservesEntities" =>
    (call.preserved <=>
       /\ call.newDiagram # ""
       /\ call.currentDiagram # ""
       /\ EntitySet(call.currentDiagram) \subseteq EntitySet(call.newDiagram)
       /\ Cardinality(EntitySet(call.newDiagram)) > Cardinality(EntitySet(call.currentDiagram)))

\* C10: the new diagram is an unchanged echo of an original that has entities,
\* and the answer is false
C10_EchoRefused ==
  /\ call.fn = "validateModificationPreservesEntities"
  /\ call.newDiagram = call.currentDiagram
  /\ EntitySet(call.currentDiagram) # {}
  /\ ~call.preserved

(***************************************************************************)
(* Properties of the server (Spec, SpecHistory, SpecInput)                 *)
(***************************************************************************)

\* response answers a POST /api/diagram request
AnswersPost(resp) == resp.kind \in {"rejected", "nokey", "cached", "generated", "failed"}

\* the session stored under id
Stored(sessions, h, id) == h[sessions[id]]

Exchanges(log) == [k \in 1..Len(log) |-> log[k].exchange]

\* the last n entries of q, all of q when it has fewer
LastOf(q, n) == SubSeq(q, Max({1, Len(q) - n + 1}), Len(q))

\* C4: a request that passes validateInput is answered with a diagram, never
\* with an error, whatever the state of the LLM collaborator.
C4_ValidIsAnswered ==
  (AnswersPost(response) /\ ValidateInput(response.request.message, response.request.format).valid)
    => /\ response.status = 200
       /\ response.diagramCode # ""

\* C4: a valid request was answered with status 500 after generateDiagram rejected
C4_ValidFailed ==
  /\ response.kind = "failed"
  /\ ValidateInput(response.request.message, response.request.format).valid

\* C6: a handler that resumes writes the diagram generateDiagram made from the
\* diagram the handler read before it was suspended, whatever was written to the
\* session in between: nothing serializes the requests of one session.
C6_WritesFromItsRead ==
  [][\A i \in 1..Len(inflight) :
       (/\ inflight' = RemoveAt(inflight, i)
        /\ response'.kind = "generated"
        /\ response'.request = inflight[i].request)
       => /\ response'.sessionId \in DOMAIN conversationSessions'
          /\ Stored(conversationSessions', heap', response'.sessionId).currentDiagram
               = response'.diagramCode
          /\ \E llm \in ServerLlm :
               response'.diagramCode =
                 GenerateDiagram(inflight[i].request.message.text, inflight[i].request.format,
                                 heap[inflight[i].session].history,
                                 inflight[i].currentDiagram, llm).diagramCode]_vars

\* C6: two edits of one session read the same stored diagram, both were answered
\* with a diagram, the first wrote a review table and the last a tag table, and
\* the stored diagram holds the tag table without the review table
C6_LostUpdate ==
  /\ inflight = <<>>
  /\ "s1" \in DOMAIN conversationSessions
  /\ LET session == Stored(conversationSessions, heap, "s1")
         n == Len(session.log)
     IN  /\ n >= 2
         /\ session.log[n].read # Null
         /\ session.log[n].read = session.log[n - 1].read
         /\ session.log[n - 1].exchange.userMessage = "add a review table"
         /\ session.log[n].exchange.userMessage = "add a tag table"
         /\ Includes(session.log[n - 1].exchange.assistantSummary, "REVIEW")
         /\ Includes(session.currentDiagram, "TAG {")
         /\ ~Includes(session.currentDiagram, "REVIEW")

\* C7: the history of every session holds at most MAX_CONVERSATION_HISTORY
\* entries, and they are the most recent of the exchanges pushed to it, in the
\* order they were pushed.
C7_HistoryIsMostRecent ==
  \A r \in DOMAIN heap :
    /\ Len(heap[r].history) <= MAX_CONVERSATION_HISTORY
    /\ heap[r].history = LastOf(Exchanges(heap[r].log), MAX_CONVERSATION_HISTORY)

\* C7: a stored session took more exchanges than the cap and lost the oldest
C7_OldestDropped ==
  \E id \in DOMAIN conversationSessions :
    LET session == Stored(conversationSessions, heap, id)
    IN  /\ Len(session.log) > MAX_CONVERSATION_HISTORY
        /\ Len(session.history) = MAX_CONVERSATION_HISTORY
        /\ session.history[1] = session.log[2].exchange
        /\ session.history[1] # session.log[1].exchange

\* C8: a request answered with a diagram, generated or cached, leaves the
\* session stored under the returned id with the returned text as currentDiagram
\* and with exactly one more exchange than that session object had, which
\* carries the message of the request.
C8_AnswerUpdatesSession ==
  [][(response' # response /\ response'.kind \in {"generated", "cached"})
       => /\ response'.sessionId \in DOMAIN conversationSessions'
          /\ LET ref == conversationSessions'[response'.sessionId]
                 after == heap'[ref]
                 before == IF ref \in DOMAIN heap THEN heap[ref].log ELSE <<>>
             IN  /\ after.currentDiagram = response'.diagramCode
                 /\ Len(after.log) = Len(before) + 1
                 /\ SubSeq(after.log, 1, Len(before)) = before
                 /\ after.log[Len(after.log)].exchange.userMessage
                      = response'.request.message.text]_vars

\* C8: a request was answered from the cache and no session is stored under the
\* id of the answer
C8_CachedWithoutSession ==
  /\ response.kind = "cached"
  /\ response.sessionId \notin DOMAIN conversationSessions

\* the requests C9 names: the message is not a string, is empty or is longer than
\* 1000 characters, or the format is none of the four
NamedInvalid(req) ==
  \/ ~req.message.isString
  \/ req.message.text = ""
  \/ Len(req.message.text) > 1000
  \/ req.format \notin {"mermaid", "tikz", "pgf", "plantuml"}

\* C9: a request with an invalid message or format, and no other, is answered
\* with the validation error (400), and answering it calls no LLM, creates or
\* changes no session and leaves the cache as it was.
C9_InvalidIsRejectedOnly ==
  /\ [](AnswersPost(response) => (response.status = 400 <=> NamedInvalid(response.request)))
  /\ [][(response' # response /\ AnswersPost(response') /\ NamedInvalid(response'.request))
          => UNCHANGED <<conversationSessions, heap, cache, inflight, uuids, llmCalls>>]_vars

\* C9: a request on a stored session was rejected while the cache held a result
C9_RejectedOnStoredSession ==
  /\ response.kind = "rejected"
  /\ response.request.sessionId \in DOMAIN conversationSessions
  /\ cache # << >>
  /\ Len(response.request.message.text) > MAX_INPUT_LENGTH

(***************************************************************************)
(* Properties of the table synthesizer (SpecSynth)                         *)
(***************************************************************************)

\* generateNewTable returned a fragment
Synthesized == call.fn = "generateNewTable" /\ call.table.ok

\* the current diagram, a newline and the fragment
WithFragment == call.currentDiagram \o "\n" \o call.table.val

ParsedNames(diagramCode) ==
  LET entities == ParseExistingDiagram(diagramCode)
  IN  [k \in 1..Len(entities) |-> entities[k].name]

FragmentLines == SplitLines(call.table.val)

\* C11: a diagram followed by the fragment generateNewTable made for a table
\* name that is no entity of the diagram passes
\* validateModificationPreservesEntities against the diagram.
C11_FragmentPreserves ==
  (Synthesized /\ ToUpperCase(call.tableName) \notin EntitySet(call.currentDiagram))
    => ValidateModificationPreservesEntities(WithFragment, call.currentDiagram)

\* C11: a fragment for a new table name that the validator refuses
C11_FragmentRefused ==
  /\ Synthesized
  /\ ToUpperCase(call.tableName) \notin EntitySet(call.currentDiagram)
  /\ ~ValidateModificationPreservesEntities(WithFragment, call.currentDiagram)

\* C12: parseExistingDiagram of a diagram followed by the fragment returns the
\* header names of the diagram in order, then the upper-cased new table name.
C12_ParseKeepsHeaders ==
  Synthesized =>
    ParsedNames(WithFragment)
      = Append(ParsedNames(call.currentDiagram), ToUpperCase(call.tableName))

\* C12: the header of a synthesized table that parseExistingDiagram does not return
C12_HeaderLost ==
  /\ Synthesized
  /\ ToUpperCase(call.tableName) \notin SeqToSet(ParsedNames(WithFragment))

\* C13: the text generateNewTable returns opens one entity block, on its first
\* line, and closes it once, and every relationship line in it joins one of the
\* given existing entities to the new entity.
C13_FragmentIsClosed ==
  Synthesized =>
    LET lines == FragmentLines
        header == ToUpperCase(call.tableName) \o " {"
        closers == {i \in 1..Len(lines) : Trim(lines[i]) = "}"}
        existing == SeqToSet(ParsedNames(call.currentDiagram))
    IN  /\ {i \in 1..Len(lines) : Trim(lines[i]) = header} = {1}
        /\ Cardinality(closers) = 1
        /\ \A i \in 1..Len(lines) :
             /\ (i > 1 /\ i \notin closers /\ \A c \in closers : i < c)
                  => (~Includes(lines[i], "{") /\ ~Includes(lines[i], "}"))
             /\ (\E c \in closers : i > c)
                  => \E e \in existing :
                       StartsWith(Trim(lines[i]), e \o " ||--o{ " \o ToUpperCase(call.tableName)
                                                    \o " : ")

\* C13: a fragment with two relationship lines
C13_TwoRelationships ==
  /\ Synthesized
  /\ Cardinality({i \in 1..Len(FragmentLines) : Includes(FragmentLines[i], "||--o{")}) = 2

(***************************************************************************)
(* Properties of the intent detector and the fallback (SpecText)           *)
(***************************************************************************)

ContainsAny(text, words) == \E w \in words : Includes(text, w)

Detected == call.fn = "detectModificationIntent"

FellBack == call.fn = "generateConversationalFallback"

\* C14: detectModificationIntent is false without a diagram; with a diagram it
\* is true exactly when the lower-cased text holds a strong keyword, or a weak
\* keyword and one of table, entity, field.
C14_IntentByKeywords ==
  Detected =>
    LET text == ToLowerCase(call.userPrompt)
    IN  /\ call.currentDiagram = Null => ~call.detected
        /\ call.currentDiagram # Null =>
             call.detected
               = \/ ContainsAny(text, SeqToSet(StrongModificationKeywords))
                 \/ /\ ContainsAny(text, SeqToSet(WeakModificationKeywords))
                    /\ ContainsAny(text, {"table", "entity", "field"})
        /\ (call.userPrompt = "I need another table for payments" /\ call.currentDiagram # Null)
             => call.detected
        /\ call.userPrompt = "I need a vacation" => ~call.detected

\* C14: a weak keyword without a structural noun, on a diagram, is refused
C14_WeakAloneRefused ==
  /\ Detected
  /\ call.currentDiagram # Null
  /\ call.userPrompt = "I need a vacation"
  /\ ~call.detected

\* the REVIEW block generateNewTable writes for the connections first and
\* second, with their foreign keys and relationship lines
ReviewBlock(first, firstLabel, second, secondLabel) ==
  "    REVIEW {\n        int review_id PK\n        string name\n        int rating\n        text comment\n        datetime created_at\n"
    \o "        int " \o ToLowerCase(first) \o "_id FK\n"
    \o "        int " \o ToLowerCase(second) \o "_id FK\n    }\n"
    \o "    " \o first \o " ||--o{ REVIEW : " \o firstLabel \o "\n"
    \o "    " \o second \o " ||--o{ REVIEW : " \o secondLabel

RelationshipLinesOf(diagramCode) ==
  LET lines == SplitLines(diagramCode)
  IN  SelectSeq([k \in 1..Len(lines) |-> Trim(lines[k])], LAMBDA l : Includes(l, "||--"))

\* C20: without a current diagram the fallback returns the medical template when
\* the text holds a medical keyword, else the commerce template when it holds a
\* commerce keyword, else the generic template; the medical template holds the
\* entities PATIENT, DOCTOR, APPOINTMENT and two relationship lines, from
\* PATIENT and from DOCTOR to APPOINTMENT.
C20_TemplateByKeywords ==
  (FellBack /\ call.currentDiagram = Null) =>
    LET text == ToLowerCase(call.userPrompt)
        medical == ContainsAny(text, {"hospital", "medical", "patient"})
        commerce == ContainsAny(text, {"ecommerce", "shop", "store", "product"})
    IN  /\ call.fallback.ok
        /\ medical => call.fallback.val = MedicalTemplate
        /\ (~medical /\ commerce) => call.fallback.val = CommerceTemplate
        /\ (call.fallback.val = GenericTemplate) = (~medical /\ ~commerce)
        /\ call.userPrompt = "Create a hospital database" =>
             /\ ParsedNames(call.fallback.val) = <<"PATIENT", "DOCTOR", "APPOINTMENT">>
             /\ EntitySet(call.fallback.val) = {"PATIENT", "DOCTOR", "APPOINTMENT"}
             /\ Len(RelationshipLinesOf(call.fallback.val)) = 2
             /\ StartsWith(RelationshipLinesOf(call.fallback.val)[1], "PATIENT ||--o{ APPOINTMENT :")
             /\ StartsWith(RelationshipLinesOf(call.fallback.val)[2], "DOCTOR ||--o{ APPOINTMENT :")

\* C20: a text with a medical and a commerce keyword got the medical template
C20_MedicalBeforeCommerce ==
  /\ FellBack
  /\ call.currentDiagram = Null
  /\ call.userPrompt = "a hospital shop"
  /\ call.fallback = Returned(MedicalTemplate)

(***************************************************************************)
(* Calls of the LLM (Spec)                                                 *)
(***************************************************************************)

\* C15: callGroq is called once in the step that suspends a handler at
\* await generateDiagram (a valid request with an API key and no cache entry),
\* and in no other step: not when a request is answered 400, 500 or from the
\* cache, and not when a handler resumes, whether callGroq returned or threw.
C15_OneCallPerGeneration ==
  [][/\ Len(inflight') > Len(inflight) => llmCalls' = llmCalls + 1
     /\ Len(inflight') <= Len(inflight) => llmCalls' = llmCalls]_vars

\* C15: callGroq threw, the fallback answered, and one call was made in all
C15_FallbackAfterOneCall ==
  /\ llmCalls = 1
  /\ inflight = <<>>
  /\ response.status = 200
  /\ response.source = "conversational_fallback_on_error"

(***************************************************************************)
(* Formats other than the entity-relationship notation (SpecGen)           *)
(***************************************************************************)

\* generateDiagram returned for a format other than mermaid
ReturnedNonEr ==
  /\ call.fn = "generateDiagram"
  /\ call.format # "mermaid"
  /\ ~call.result.rejected

TikzText == "\\begin{tikzpicture}\n\\node (user) {USER};\n\\end{tikzpicture}"

\* C16: for a format other than mermaid, the text generateDiagram returns is
\* never the current diagram with an entity block of generateNewTable appended.
C16_NoSynthesisOffEr ==
  (/\ ReturnedNonEr
   /\ call.currentDiagram # Null
   /\ ExtractTableNameFromInput(call.userPrompt) # ""
   /\ AddToDiagram(call.currentDiagram, ExtractTableNameFromInput(call.userPrompt)).ok)
    => call.result.diagramCode
         # AddToDiagram(call.currentDiagram, ExtractTableNameFromInput(call.userPrompt)).val

\* C16: a tikz request on a diagram without entity blocks, answered with that
\* diagram and a REVIEW block after the LLM returned tikz code
C16_ErBlockOnTikz ==
  /\ ReturnedNonEr
  /\ call.format = "tikz"
  /\ call.llm = Returned(TikzText)
  /\ call.currentDiagram = "graph TD\n    A --> B"
  /\ call.result.diagramCode = AddToDiagram(call.currentDiagram, "review").val

\* C17: for a format other than mermaid, when callGroq returns a text of at
\* least 10 characters that cleanDiagramCode does not empty, generateDiagram
\* returns that cleaned text.
C17_PassThrough ==
  (/\ call.fn = "generateDiagram"
   /\ call.format # "mermaid"
   /\ call.llm.ok
   /\ Len(call.llm.val) >= 10
   /\ CleanDiagramCode(call.llm.val, call.format) # "")
    => /\ ~call.result.rejected
       /\ call.result.diagramCode = CleanDiagramCode(call.llm.val, call.format)

\* C17: tikz code from the LLM, on a fresh request, replaced by the generic
\* entity-relationship template
C17_TikzDiscarded ==
  /\ ReturnedNonEr
  /\ call.userPrompt = "hello"
  /\ call.currentDiagram = Null
  /\ call.llm = Returned(TikzText)
  /\ call.result.diagramCode = GenericTemplate
  /\ call.result.source = "groq_conversational"

(***************************************************************************)
(* The sweep of old sessions (SpecSweep)                                   *)
(***************************************************************************)

\* the time of the last exchange pushed to the session object, or the time the
\* object was made when none was pushed
LastExchangeAt(session) ==
  IF session.log = <<>> THEN session.createdAt ELSE session.log[Len(session.log)].exchange.timestamp

\* C18: a run of cleanupOldSessions keeps exactly the sessions whose last
\* activity is at most 24 hours before the run, keeps them on the same unchanged
\* session object, and touches nothing else.
C18_SweepEvictsExpired ==
  [][sweeps' # sweeps =>
       /\ DOMAIN conversationSessions'
            = {id \in DOMAIN conversationSessions :
                 clock - LastExchangeAt(heap[conversationSessions[id]]) <= 24 * 60 * 60 * 1000}
       /\ \A id \in DOMAIN conversationSessions' :
            /\ conversationSessions'[id] = conversationSessions[id]
            /\ heap'[conversationSessions'[id]] = heap[conversationSessions[id]]
       /\ UNCHANGED <<cache, inflight, response, clock>>]_vars

\* C18: after a sweep, s1 (last active 24 hours and a millisecond ago) is gone
\* and s2 (last active 24 hours ago) is stored
C18_OneEvictedOneKept ==
  /\ sweeps > 0
  /\ DOMAIN conversationSessions = {"s2"}
  /\ clock - LastExchangeAt(heap[conversationSessions["s2"]]) = 24 * 60 * 60 * 1000
  /\ \E key \in DOMAIN cache :
       /\ cache[key].sessionId = "s1"
       /\ \A other \in DOMAIN cache : cache[other].sessionId = "s1" => other = key

(***************************************************************************)
(* The text generateDiagram returns for mermaid (SpecGen)                  *)
(***************************************************************************)

\* generateDiagram returned, for mermaid, a text no fallback supplied
ReturnedLlmText ==
  /\ call.fn = "generateDiagram"
  /\ call.format = "mermaid"
  /\ ~call.result.rejected
  /\ ~call.result.byFallback

NonEmptyLines(text) == SelectSeq(SplitLines(text), LAMBDA l : Trim(l) # "")

\* the content-quality checks on the raw response and the text made from it
PassesQuality(raw, text) ==
  /\ Len(raw) >= 10
  /\ Includes(text, "erDiagram")
  /\ Len(NonEmptyLines(text)) >= 3
  /\ \E i \in 1..Len(NonEmptyLines(text)) : EntityHeader(Trim(NonEmptyLines(text)[i])) # ""

OtherHistories ==
  {<<>>,
   <<[userMessage |-> "Create a hospital database",
      assistantSummary |-> "Created diagram with 3 entities", timestamp |-> 0]>>}

\* generateDiagram returned a text the fallback supplied
FellBackInGenerate ==
  /\ call.fn = "generateDiagram"
  /\ ~call.result.rejected
  /\ call.result.byFallback

\* C22: when the fallback supplied the returned text, a second run of
\* generateDiagram on the same user text, format and current diagram, with any
\* other outcome of callGroq and any other conversation history, in which the
\* fallback supplies the text too, returns the same text; the text is the one
\* generateConversationalFallback makes from the user text and the diagram.
C22_FallbackIgnoresLlm ==
  FellBackInGenerate =>
    /\ call.result.diagramCode
         = GenerateConversationalFallback(call.userPrompt, <<>>, call.currentDiagram).val
    /\ \A llm \in LlmOutcomes, history \in OtherHistories :
         LET second == GenerateDiagram(call.userPrompt, call.format, history,
                                       call.currentDiagram, llm)
         IN  (~second.rejected /\ second.byFallback)
               => second.diagramCode = call.result.diagramCode

\* C22: the LLM returned a diagram with an entity the current diagram lacks, the
\* fallback fired, and the result holds no such entity
C22_LlmEntityAbsent ==
  /\ FellBackInGenerate
  /\ call.llm.ok
  /\ Len(call.llm.val) >= 10
  /\ call.currentDiagram # Null
  /\ \E e \in EntitySet(call.llm.val) :
       e \notin EntitySet(call.currentDiagram) /\ e \notin EntitySet(call.result.diagramCode)

(***************************************************************************)
(* Entity headers of the stored diagrams (Spec)                            *)
(***************************************************************************)

\* the names of the entity header lines of text, one per line, in order
HeaderNames(text) ==
  LET lines == SplitLines(text)
      names == [k \in 1..Len(lines) |-> EntityHeader(Trim(lines[k]))]
  IN  SelectSeq(names, LAMBDA n : n # "")

Distinct(names) == Cardinality(SeqToSet(names)) = Len(names)

\* C23: the entity header names of the diagram a session stores are pairwise
\* distinct, whatever requests the fallback has answered.
C23_HeadersStayDistinct ==
  \A id \in DOMAIN conversationSessions :
    Distinct(HeaderNames(heap[conversationSessions[id]].currentDiagram))

\* C23: the fallback answered a repeated add-request with a diagram that holds
\* the header REVIEW twice
C23_ReviewTwice ==
  /\ response.kind = "generated"
  /\ response.source = "conversational_fallback_on_error"
  /\ response.request.message.text = "add a review table"
  /\ Len(SelectSeq(HeaderNames(response.diagramCode), LAMBDA n : n = "REVIEW")) = 2

(***************************************************************************)
(* The two extraction passes of generateDiagram (SpecGen)                  *)
(***************************************************************************)

\* callGroq returned a response long enough to be cleaned
Cleaned ==
  /\ call.fn = "generateDiagram"
  /\ call.llm.ok
  /\ Len(call.llm.val) >= 10

\* no line of text begins with a start keyword of extractDiagramFromResponse
NoStartLine(text) ==
  \A k \in 1..Len(SplitLines(text)) :
    \A w \in {"erdiagram", "digraph", "@startuml"} :
      ~StartsWith(ToLowerCase(Trim(SplitLines(text)[k])), w)

\* C24: when no line of the response begins with the root keyword, the text
\* generateDiagram goes on with after the additional extraction is the text
\* cleanDiagramCode returned.
C24_EscalationKeepsCheapText ==
  (Cleaned /\ NoStartLine(call.llm.val))
    => ExtractedIfNeeded(call.llm.val, call.format,
                         CleanDiagramCode(call.llm.val, call.format))
         = CleanDiagramCode(call.llm.val, call.format)

\* C24: a response without a root keyword line whose cleaned text the additional
\* extraction replaced by the empty text
C24_CheapTextEmptied ==
  /\ Cleaned
  /\ NoStartLine(call.llm.val)
  /\ CleanDiagramCode(call.llm.val, call.format) = "I cannot draw that diagram."
  /\ ExtractedIfNeeded(call.llm.val, call.format,
                       CleanDiagramCode(call.llm.val, call.format)) = ""

(***************************************************************************)
(* The two readers of entity headers (SpecSynth)                           *)
(***************************************************************************)

\* C25: parseExistingDiagram and extractEntitiesFromDiagram return the same set
\* of names for the same diagram text.
C25_SameHeaderRule ==
  call.fn = "generateNewTable"
    => SeqToSet(ParsedNames(call.currentDiagram)) = EntitySet(call.currentDiagram)

\* C25: generateNewTable ran on the entities parsed from a diagram whose header
\* ORDER_2 the validator reads and the parser does not
C25_DigitHeaderUnparsed ==
  /\ call.fn = "generateNewTable"
  /\ "ORDER_2" \in EntitySet(call.currentDiagram)
  /\ "ORDER_2" \notin SeqToSet(ParsedNames(call.currentDiagram))

(***************************************************************************)
(* Answers from the cache (SpecCache)                                      *)
(***************************************************************************)

\* the diagram the session of the request holds when the handler looks into the
\* cache
HeldDiagram(req) == SessionOf(req).heap[SessionOf(req).ref].currentDiagram

\* C26: when POST /api/diagram answers from the cache, the diagram it returns
\* holds every entity of the diagram the session holds at that moment.
C26_HitIsFresh ==
  [][(response'.kind = "cached" /\ inflight' = inflight)
       => EntitySet(HeldDiagram(response'.request)) \subseteq EntitySet(response'.diagramCode)]_vars

\* C26: with the history at the cap, a repeated "add a review table" was answered
\* from the cache with a diagram that lacks the TAG block the session holds
C26_StaleHit ==
  /\ response.kind = "cached"
  /\ inflight = <<>>
  /\ HistoryFull
  /\ "TAG" \in EntitySet(heap[conversationSessions["s1"]].currentDiagram)
  /\ "TAG" \notin EntitySet(response.diagramCode)

(***************************************************************************)
(* A cleared conversation (Spec)                                           *)
(***************************************************************************)

\* C27: the step that answers DELETE with "cleared" leaves no session under the
\* id (so GET answers 404), and the POST for that id that follows is not
\* answered from the cache: its handler starts from a session object with an
\* empty history and no diagram but the one the request carries.
C27_ClearedStartsAnew ==
  [][/\ (response'.kind = "cleared" /\ response' # response)
          => response'.sessionId \notin DOMAIN conversationSessions'
     /\ (/\ response.kind = "cleared"
         /\ response' # response
         /\ response'.request.sessionId = response.sessionId)
          => response'.kind # "cached"
     /\ (/\ response.kind = "cleared"
         /\ Len(inflight') > Len(inflight)
         /\ inflight'[Len(inflight')].request.sessionId = response.sessionId)
          => /\ heap'[inflight'[Len(inflight')].session].history = <<>>
             /\ inflight'[Len(inflight')].currentDiagram
                  = inflight'[Len(inflight')].request.currentDiagram]_vars

\* C27: one diagram was generated for s1, the conversation was cleared, and the
\* repeated message was answered from the cache
C27_CachedAfterClear ==
  /\ response.kind = "cached"
  /\ response.sessionId = "s1"
  /\ "s1" \notin DOMAIN conversationSessions
  /\ inflight = <<>>
  /\ llmCalls = 1

(***************************************************************************)
(* Termination of the handlers (SpecLive)                                  *)
(***************************************************************************)

\* every suspended handler is answered in the end
HandlersTerminate == (inflight # <<>>) ~> (inflight = <<>>)

\* C28: when every call of callGroq settles, every handler suspended at
\* await generateDiagram is answered in the end, and it is answered with the
\* result generateDiagram returned.
C28_AcceptedReachesResult ==
  /\ HandlersTerminate
  /\ [][Len(inflight') < Len(inflight) => response'.kind = "generated"]_vars

\* C28: callGroq was called once, threw, and the request for a constructor
\* table was answered 500 because generateDiagram rejected
C28_AnsweredWithoutResult ==
  /\ response.kind = "failed"
  /\ response.status = 500
  /\ response.request.message.text = "add a constructor table"
  /\ inflight = <<>>
  /\ llmCalls = 1

(***************************************************************************)
(* Keywords inside other words (SpecText)                                  *)
(***************************************************************************)

\* keyword stands in text as a word or phrase of its own, between blanks or at
\* an end of the text
HasWholeWord(text, keyword) == Includes(" " \o text \o " ", " " \o keyword \o " ")

\* C29: with a diagram, a text that holds no strong keyword as a word of its own
\* and none of table, entity, field is not classified as a modification.
C29_StrongNeedsWholeWord ==
  (/\ Detected
   /\ call.currentDiagram # Null
   /\ \A k \in 1..Len(StrongModificationKeywords) :
        ~HasWholeWord(ToLowerCase(call.userPrompt), StrongModificationKeywords[k])
   /\ ~ContainsAny(ToLowerCase(call.userPrompt), {"table", "entity", "field"}))
    => ~call.detected

\* C29: "what is my address", on a diagram, classified as a modification
C29_AddressIsAnEdit ==
  /\ Detected
  /\ call.currentDiagram # Null
  /\ call.userPrompt = "what is my address"
  /\ call.detected

(***************************************************************************)
(* Requests to remove an entity (SpecGen)                                  *)
(***************************************************************************)

RemovalVerbs == {"remove", "delete", "drop"}

\* detectModificationIntent holds of input through a removal verb alone: the
\* strong keywords it contains are removal verbs, and the weak tier is silent
ByRemovalVerbOnly(input) ==
  /\ \E k \in 1..Len(StrongModificationKeywords) :
       Includes(input, StrongModificationKeywords[k])
  /\ \A k \in 1..Len(StrongModificationKeywords) :
       Includes(input, StrongModificationKeywords[k])
         => StrongModificationKeywords[k] \in RemovalVerbs
  /\ \A k \in 1..Len(WeakModificationKeywords) :
       ~Includes(input, WeakModificationKeywords[k])

\* generateDiagram returned a Mermaid text for a removal request on a diagram
RemovalAnswered ==
  /\ call.fn = "generateDiagram"
  /\ call.format = "mermaid"
  /\ call.currentDiagram # Null
  /\ ByRemovalVerbOnly(ToLowerCase(call.userPrompt))
  /\ ~call.result.rejected

\* C30: the diagram returned for a request classified as a modification through
\* a removal verb alone has no more entity blocks than the current diagram,
\* whatever callGroq returned or threw.
C30_RemovalNeverGrows ==
  RemovalAnswered
    => Len(HeaderNames(call.result.diagramCode)) <= Len(HeaderNames(call.currentDiagram))

\* C30: asked to remove the review table from USER and REVIEW, with callGroq
\* failing, the fallback returned the diagram with a second REVIEW block
C30_RemovedEntityAppended ==
  /\ RemovalAnswered
  /\ call.userPrompt = "remove the review table"
  /\ call.currentDiagram = DiagramOf(<<"USER", "REVIEW">>)
  /\ ~call.llm.ok
  /\ call.result.byFallback
  /\ HeaderNames(call.result.diagramCode) = <<"USER", "REVIEW", "REVIEW">>

\* C30: a response of callGroq that adds an entity to the diagram was accepted
\* for the removal request
C30_GrownByLlm ==
  /\ RemovalAnswered
  /\ ~call.result.byFallback
  /\ Len(HeaderNames(call.result.diagramCode)) > Len(HeaderNames(call.currentDiagram))

====
